---- MODULE Spec2Model ----
(***************************************************************************)
(* Model of utils-submodules: APIUtils (compileErrorReport,                *)
(* handleApiResponse) and the promise-returning wrappers of GameLiftUtils  *)
(* and PlayFabUtils.                                                       *)
(*                                                                         *)
(* JavaScript values are tagged records.  An object carries an identity    *)
(* (id) and its own properties in iteration order, so that "the same       *)
(* object" and "a copy of it" are different values.  Strings are TLA+      *)
(* strings and are built with \o exactly as the template literals of the   *)
(* source build them.                                                      *)
(***************************************************************************)
EXTENDS Integers, Sequences, FiniteSets, TLC

VARIABLES
  calls,    \* per wrapper invocation: position, vendor outcome, promise
  console,  \* the lines written by console.log, in order
  cer       \* a direct call of the exported compileErrorReport

vars == <<calls, console, cer>>

---------------------------------------------------------------------------
(* Bounds *)

\* wrapper invocations in one behaviour of Spec
MaxCalls == 1
\* wrapper invocations in flight together in SpecConcurrent
MaxInFlight == 2
\* parameters in an errorDetails mapping
MaxParams == 2
\* detail strings per parameter
MaxMsgs == 2

---------------------------------------------------------------------------
(* JavaScript values *)

Null == [t |-> "null"]
Undefined == [t |-> "undefined"]
Str(s) == [t |-> "string", s |-> s]
Arr(items) == [t |-> "array", items |-> items]
Obj(id, entries) == [t |-> "object", id |-> id, entries |-> entries]
Prop(k, v) == [k |-> k, v |-> v]

\* a function's completion: a returned value or a thrown one
Return(v) == [kind |-> "return", value |-> v]
Throw(v) == [kind |-> "throw", value |-> v]

\* the TypeError the runtime creates when a property of null/undefined is
\* read or a non-function is called
TypeError(msg) == Obj(0, <<Prop("name", Str("TypeError")), Prop("message", Str(msg))>>)

RECURSIVE Lookup(_, _)
Lookup(entries, key) ==
  IF entries = <<>> THEN Undefined
  ELSE IF Head(entries).k = key THEN Head(entries).v
  ELSE Lookup(Tail(entries), key)

\* o[key] for a value that is neither null nor undefined
Get(o, key) ==
  CASE o.t = "object" -> Lookup(o.entries, key)
    [] o.t = "array" ->
         IF \E i \in 1..Len(o.items) : ToString(i - 1) = key
         THEN o.items[(CHOOSE i \in 1..Len(o.items) : ToString(i - 1) = key)]
         ELSE Undefined
    [] OTHER -> Undefined

\* ToBoolean
Truthy(v) ==
  CASE v.t = "null" -> FALSE
    [] v.t = "undefined" -> FALSE
    [] v.t = "string" -> v.s # ""
    [] OTHER -> TRUE

\* typeof
TypeOf(v) ==
  CASE v.t = "undefined" -> "undefined"
    [] v.t = "string" -> "string"
    [] OTHER -> "object"

RECURSIVE Join(_, _)
\* Array.prototype.join on an array of strings
Join(lines, sep) ==
  IF lines = <<>> THEN ""
  ELSE IF Len(lines) = 1 THEN lines[1]
  ELSE lines[1] \o sep \o Join(Tail(lines), sep)

RECURSIVE JSToString(_)
\* the string a template literal ${v} inserts
JSToString(v) ==
  CASE v.t = "string" -> v.s
    [] v.t = "null" -> "null"
    [] v.t = "undefined" -> "undefined"
    [] v.t = "array" -> Join([i \in 1..Len(v.items) |->
                               IF v.items[i].t \in {"null", "undefined"} THEN ""
                               ELSE JSToString(v.items[i])], ",")
    [] OTHER -> "[object Object]"

\* Object.entries
Entries(v) ==
  CASE v.t = "object" -> v.entries
    [] v.t = "array" -> [i \in 1..Len(v.items) |-> Prop(ToString(i - 1), v.items[i])]
    [] OTHER -> <<>>

---------------------------------------------------------------------------
(* APIUtils.compileErrorReport *)

\* messages.map((msg) => `${paramName}: ${msg}`)
MapMessages(paramName, messages) ==
  IF messages.t = "array"
  THEN Return([i \in 1..Len(messages.items) |->
                 paramName \o ": " \o JSToString(messages.items[i])])
  ELSE IF messages.t \in {"null", "undefined"}
  THEN Throw(TypeError("Cannot read properties of " \o messages.t \o " (reading 'map')"))
  ELSE Throw(TypeError("messages.map is not a function"))

RECURSIVE FlatMapDetails(_)
\* Object.entries(errorDetails).flatMap(([paramName, messages]) => ...)
FlatMapDetails(entries) ==
  IF entries = <<>> THEN Return(<<>>)
  ELSE LET first == MapMessages(Head(entries).k, Head(entries).v)
       IN IF first.kind = "throw" THEN first
          ELSE LET rest == FlatMapDetails(Tail(entries))
               IN IF rest.kind = "throw" THEN rest
                  ELSE Return(first.value \o rest.value)

\* faulty variant: errorMessage is preferred whatever the apiType
ChooseMessageAnyApi(error, apiType) ==
  IF Truthy(Get(error, "errorMessage"))
  THEN Get(error, "errorMessage")
  ELSE Get(error, "message")

\* let { message, errorMessage } = error; if (apiType === 'PlayFab' && errorMessage) ...
ChooseMessage(error, apiType) ==
  IF apiType = "PlayFab" /\ Truthy(Get(error, "errorMessage"))
  THEN Get(error, "errorMessage")
  ELSE Get(error, "message")

\* faulty variant: only the falsy test, the typeof test is lost
NoDetailsFalsyOnly(errorDetails) == ~Truthy(errorDetails)

\* !errorDetails || typeof errorDetails !== 'object'
NoDetails(errorDetails) == ~Truthy(errorDetails) \/ TypeOf(errorDetails) # "object"

\* faulty variant: the details are joined with ", " instead of a newline
FormatReportCommaJoin(apiType, message, details) ==
  Str("[" \o apiType \o " API Error] " \o JSToString(message)
      \o "\n" \o Join(details, ", "))

\* `[${apiType} API Error] ${message}\n${details.join('\n')}`
FormatReport(apiType, message, details) ==
  Str("[" \o apiType \o " API Error] " \o JSToString(message)
      \o "\n" \o Join(details, "\n"))

compileErrorReport(error, apiType) ==
  IF ~Truthy(error) THEN Return(Str(""))
  ELSE
    LET errorDetails == Get(error, "errorDetails")
        message == ChooseMessage(error, apiType)
    IN IF NoDetails(errorDetails)
       THEN Return(message)
       ELSE LET details == FlatMapDetails(Entries(errorDetails))
            IN IF details.kind = "throw" THEN details
               ELSE Return(FormatReport(apiType, message, details.value))

---------------------------------------------------------------------------
(* APIUtils.handleApiResponse *)

\* What one run of a handler does: the console lines it writes, the settle
\* function it calls (resolve, reject or none) with which value, and how it
\* completes (a throw leaves the handler before anything after it runs).
\* `seen` records the arguments of the handleApiResponse calls of the run.
Effect(log, settle, value, completion) ==
  [log |-> log, settle |-> settle, value |-> value, completion |-> completion,
   seen |-> <<>>]

Seen(effect, apiName, apiType, error, result) ==
  [effect EXCEPT !.seen = <<[apiName |-> apiName, apiType |-> apiType,
                             error |-> error, result |-> result]>>]

\* case result !== null
SuccessCase(apiName, result) ==
  Effect(<<apiName \o " API call successful">>, "resolve", result, Return(Undefined))

\* case error !== null
FailedCase(apiName, apiType, error) ==
  LET report == compileErrorReport(error, apiType)
  IN IF report.kind = "throw"
     THEN Effect(<<>>, "none", Undefined, report)
     ELSE Effect(<<apiName \o " API call failed: " \o JSToString(report.value)>>,
                 "reject", error, Return(Undefined))

\* faulty variant: the default case rejects with an error made up for it
UnexpectedCaseSynthesized(apiName, error) ==
  Effect(<<apiName \o " API call unxpected error: " \o JSToString(error)>>,
         "reject", TypeError("unexpected"), Return(Undefined))

\* default
UnexpectedCase(apiName, error) ==
  Effect(<<apiName \o " API call unxpected error: " \o JSToString(error)>>,
         "reject", error, Return(Undefined))

\* faulty variant: the error is looked at before the result
handleApiResponseErrorFirst(apiName, apiType, error, result) ==
  Seen(IF error # Null THEN FailedCase(apiName, apiType, error)
       ELSE IF result # Null THEN SuccessCase(apiName, result)
       ELSE UnexpectedCase(apiName, error),
       apiName, apiType, error, result)

\* switch (true): the first case that holds
handleApiResponse(apiName, apiType, error, result) ==
  Seen(IF result # Null THEN SuccessCase(apiName, result)
       ELSE IF error # Null THEN FailedCase(apiName, apiType, error)
       ELSE UnexpectedCase(apiName, error),
       apiName, apiType, error, result)

---------------------------------------------------------------------------
(* GameLiftUtils and PlayFabUtils: the wrappers *)

GameLiftFns ==
  {"updateRuntimeConfiguration", "createPlayerSession", "createGameSession",
   "createGameSessionQueue", "describeGameSession", "describeGameSessions"}

PlayFabFns ==
  {"authenticateSessionTicket", "getEntityToken", "validateEntityToken",
   "getLeaderboardAroundUser", "getTitleData", "listVirtualCurrencyTypes",
   "addUserVirtualCurrency", "subtractUserVirtualCurrency", "updatePlayerStatistics"}

AllFns == GameLiftFns \cup PlayFabFns

ApiTypeOf(fn) == IF fn \in PlayFabFns THEN "PlayFab" ELSE "GameLift"

\* the first argument of handleApiResponse: the wrapper's name, with the
\* currency for the two virtual-currency wrappers
ApiName(fn, arg) ==
  IF fn \in {"addUserVirtualCurrency", "subtractUserVirtualCurrency"}
  THEN fn \o " (" \o arg \o ")"
  ELSE fn

\* faulty variant: createPlayerSession reads the field of createGameSession
ResponseFieldSlip(fn) ==
  CASE fn = "updateRuntimeConfiguration" -> "RuntimeConfiguration"
    [] fn = "createPlayerSession" -> "GameSession"
    [] fn = "createGameSession" -> "GameSession"
    [] fn = "createGameSessionQueue" -> "GameSessionQueue"
    [] OTHER -> "GameSessions"

\* const result = response['...']
ResponseField(fn) ==
  CASE fn = "updateRuntimeConfiguration" -> "RuntimeConfiguration"
    [] fn = "createPlayerSession" -> "PlayerSession"
    [] fn = "createGameSession" -> "GameSession"
    [] fn = "createGameSessionQueue" -> "GameSessionQueue"
    [] OTHER -> "GameSessions"

\* the property read o[key], which throws when o is null or undefined
Read(o, key) ==
  IF o.t \in {"null", "undefined"}
  THEN Throw(TypeError("Cannot read properties of " \o o.t \o " (reading '" \o key \o "')"))
  ELSE Return(Get(o, key))

\* the first statement of a .then handler
ExtractResult(fn, response) ==
  LET field == Read(response, ResponseField(fn))
  IN IF field.kind = "throw" \/ fn # "describeGameSession"
     THEN field
     ELSE Read(field.value, "0")

\* createGameSessionQueue calls resolve and reject itself
UsesDispatcher(fn) == fn # "createGameSessionQueue"

\* .then((response) => { ... })
ThenHandler(fn, response) ==
  LET result == ExtractResult(fn, response)
  IN IF result.kind = "throw" THEN Effect(<<>>, "none", Undefined, result)
     ELSE IF UsesDispatcher(fn)
     THEN handleApiResponse(fn, "GameLift", Null, result.value)
     ELSE Effect(<<>>, "resolve", result.value, Return(Undefined))

\* .catch((error) => { ... })
CatchHandler(fn, error) ==
  IF UsesDispatcher(fn)
  THEN handleApiResponse(fn, "GameLift", error, Null)
  ELSE Effect(<<>>, "reject", error, Return(Undefined))

\* (error, result) => { APIUtils.handleApiResponse(...) }
PlayFabCallback(fn, arg, error, result) ==
  handleApiResponse(ApiName(fn, arg), "PlayFab", error, result)

---------------------------------------------------------------------------
(* Inputs of the direct calls of compileErrorReport *)

ApiTypes == {"PlayFab", "GameLift", "X"}
ParamNames == <<"Foo", "Bar", "Baz", "Qux">>
DetailStrings == {"wrong", "missing"}

\* sequences over S of length 0..n
SeqsUpTo(S, n) == UNION {[1..k -> S] : k \in 0..n}

\* the arrays of detail strings
DetailArrays(maxMsgs) ==
  {Arr(s) : s \in SeqsUpTo({Str(d) : d \in DetailStrings}, maxMsgs)}

\* orders of up to maxParams distinct parameter names
ParamOrders(maxParams) ==
  {s \in SeqsUpTo({ParamNames[i] : i \in 1..maxParams}, maxParams) :
     \A i, j \in 1..Len(s) : i # j => s[i] # s[j]}

\* errorDetails objects: parameter name -> array of detail strings
DetailMappings(maxParams, maxMsgs) ==
  UNION {{Obj(2, [i \in 1..Len(ks) |-> Prop(ks[i], vs[i])]) :
            vs \in [1..Len(ks) -> DetailArrays(maxMsgs)]} : ks \in ParamOrders(maxParams)}

\* errorDetails objects that are mappings, but not to arrays
MalformedMappings ==
  {Obj(2, <<Prop("Foo", Str("bad"))>>),
   Obj(2, <<Prop("Foo", Arr(<<Str("wrong")>>)), Prop("Bar", Null)>>)}

\* the example of the documentation of the report
ExampleDetails ==
  Obj(2, <<Prop("Foo", Arr(<<Str("bad")>>)),
           Prop("Bar", Arr(<<Str("wrong"), Str("missing")>>))>>)

\* errorDetails values of every kind, one mapping of each shape
ErrorDetailsKinds ==
  {Undefined, Null, Str(""), Str("text"), Obj(2, <<>>), ExampleDetails}
    \cup MalformedMappings

\* an error object: a property that is Undefined is left out
ErrorObject(id, message, errorMessage, errorDetails) ==
  Obj(id, SelectSeq(<<Prop("message", message), Prop("errorMessage", errorMessage),
                      Prop("errorDetails", errorDetails)>>,
                    LAMBDA p : p.v # Undefined))

\* no error; every combination of message and errorMessage with every kind of
\* errorDetails; every mapping with message and errorMessage both present
ReportErrors(maxParams, maxMsgs) ==
  {Null, Undefined} \cup
  {ErrorObject(1, m, em, ed) :
     m \in {Undefined, Str("bad")},
     em \in {Undefined, Str(""), Str("pf")},
     ed \in ErrorDetailsKinds} \cup
  {ErrorObject(1, Str("bad"), Str("pf"), ed) : ed \in DetailMappings(maxParams, maxMsgs)}

---------------------------------------------------------------------------
(* What the vendor clients answer.  The objects a vendor hands to call c     *)
(* carry identities of their own (10 * c + k).                               *)

Currencies == {"GD", "XP"}

\* an AWS-style error: a message and nothing else
PlainError(c) == Obj(10 * c + 1, <<Prop("message", Str("bad"))>>)

\* a PlayFab-style error with well-formed details
DetailedError(c) ==
  Obj(10 * c + 2,
      <<Prop("errorMessage", Str("pf")),
        Prop("errorDetails", Obj(10 * c + 3, <<Prop("Foo", Arr(<<Str("wrong")>>)),
                                                 Prop("Bar", Arr(<<Str("missing")>>))>>))>>)

\* an error whose errorDetails maps a parameter to a string, not to an array
MalformedError(c) ==
  Obj(10 * c + 4,
      <<Prop("errorMessage", Str("pf")),
        Prop("errorDetails", Obj(10 * c + 5, <<Prop("Foo", Str("bad"))>>))>>)

ErrorKinds == {"null", "plain", "detailed", "malformed"}

\* the error of the given kind handed to call c
VendorError(c, kind) ==
  CASE kind = "null" -> Null
    [] kind = "plain" -> PlainError(c)
    [] kind = "detailed" -> DetailedError(c)
    [] OTHER -> MalformedError(c)

VendorResults(c) == {Null, Obj(10 * c + 6, <<Prop("code", Str("200"))>>)}

\* the field of the vendor's output that holds the payload of the operation
OutputField(fn) ==
  CASE fn = "updateRuntimeConfiguration" -> "RuntimeConfiguration"
    [] fn = "createPlayerSession" -> "PlayerSession"
    [] fn = "createGameSession" -> "GameSession"
    [] fn = "createGameSessionQueue" -> "GameSessionQueue"
    [] OTHER -> "GameSessions"

Payload(c) == Obj(10 * c + 8, <<Prop("Name", Str("n"))>>)

\* the outputs client.send may be fulfilled with: the payload present (a list
\* for DescribeGameSessions), an empty list, the field missing, the field null
VendorResponses(c, fn) ==
  LET meta == Prop("$metadata", Str("200"))
      listed == OutputField(fn) = "GameSessions"
  IN {Obj(10 * c + 7, <<meta, Prop(OutputField(fn),
                                  IF listed THEN Arr(<<Payload(c)>>) ELSE Payload(c))>>),
      Obj(10 * c + 7, <<meta>>),
      Obj(10 * c + 7, <<meta, Prop(OutputField(fn), Null)>>)}
     \cup (IF listed THEN {Obj(10 * c + 7, <<meta, Prop(OutputField(fn), Arr(<<>>))>>)}
           ELSE {})

\* the reduced answers used when several calls are in flight
ConcurrentFns ==
  {"addUserVirtualCurrency", "createGameSession", "describeGameSession",
   "createGameSessionQueue"}

ConcurrentErrorKinds == {"null", "plain", "malformed"}

---------------------------------------------------------------------------
(* State *)

NoOutcome == [kind |-> "none"]

NoCall ==
  [pc |-> "idle", fn |-> "", arg |-> "", vendor |-> NoOutcome, caught |-> Undefined,
   promise |-> [state |-> "none", value |-> Undefined, resolveCalls |-> 0, rejectCalls |-> 0],
   seen |-> <<>>]

\* new Promise((resolve, reject) => { ... })
NewPromise == [state |-> "pending", value |-> Undefined, resolveCalls |-> 0, rejectCalls |-> 0]

\* resolve(value) / reject(value): only the first call settles the promise
Settle(promise, settle, value) ==
  IF settle = "none" THEN promise
  ELSE [state |-> IF promise.state # "pending" THEN promise.state
                  ELSE IF settle = "resolve" THEN "fulfilled" ELSE "rejected",
        value |-> IF promise.state # "pending" THEN promise.value ELSE value,
        resolveCalls |-> promise.resolveCalls + (IF settle = "resolve" THEN 1 ELSE 0),
        rejectCalls |-> promise.rejectCalls + (IF settle = "reject" THEN 1 ELSE 0)]

\* faulty variant: resolve and reject kept in one module-level slot, that of the first call
ResolverShared(c) == 1

\* the promise whose resolve and reject the handlers of call c close over
ResolverOf(c) == c

\* The handler of call c ran with `effect`: its console lines are appended and
\* the promise its resolve/reject belong to is settled.
Ran(c, effect, vendor, pc, caught) ==
  /\ calls' = [d \in DOMAIN calls |->
                 LET own == IF d = c
                            THEN [calls[c] EXCEPT !.pc = pc, !.vendor = vendor,
                                                  !.caught = caught,
                                                  !.seen = @ \o effect.seen]
                            ELSE calls[d]
                 IN IF d = ResolverOf(c)
                    THEN [own EXCEPT !.promise = Settle(@, effect.settle, effect.value)]
                    ELSE own]
  /\ console' = console \o [i \in 1..Len(effect.log) |-> [line |-> effect.log[i], call |-> c]]
  /\ UNCHANGED cer

\* a wrapper is called: the promise is created and the request is sent
Invoke(Fns) ==
  \E c \in DOMAIN calls :
    /\ calls[c].pc = "idle"
    /\ \A d \in DOMAIN calls : d < c => calls[d].pc # "idle"
    /\ \E fn \in Fns :
         \E arg \in (IF fn \in {"addUserVirtualCurrency", "subtractUserVirtualCurrency"}
                     THEN Currencies ELSE {""}) :
           calls' = [calls EXCEPT ![c] = [NoCall EXCEPT !.pc = "pending", !.fn = fn,
                                                        !.arg = arg, !.promise = NewPromise]]
    /\ UNCHANGED <<console, cer>>

\* the PlayFab client calls the callback with (error, result)
VendorCallback(Kinds) ==
  \E c \in DOMAIN calls :
    /\ calls[c].pc = "pending"
    /\ calls[c].fn \in PlayFabFns
    /\ \E error \in {VendorError(c, k) : k \in Kinds}, result \in VendorResults(c) :
         LET effect == PlayFabCallback(calls[c].fn, calls[c].arg, error, result)
         IN Ran(c, effect, [kind |-> "callback", error |-> error, result |-> result],
                IF effect.completion.kind = "throw" THEN "threw" ELSE "done", Undefined)

\* client.send(command) is fulfilled and the .then handler runs; what it
\* throws rejects the promise the .catch handler is attached to
SendFulfilled ==
  \E c \in DOMAIN calls :
    /\ calls[c].pc = "pending"
    /\ calls[c].fn \in GameLiftFns
    /\ \E response \in VendorResponses(c, calls[c].fn) :
         LET effect == ThenHandler(calls[c].fn, response)
         IN Ran(c, effect, [kind |-> "fulfilled", response |-> response],
                IF effect.completion.kind = "throw" THEN "catch" ELSE "done",
                IF effect.completion.kind = "throw" THEN effect.completion.value
                ELSE Undefined)

\* client.send(command) is rejected: .then passes the rejection on to .catch
SendRejected(Kinds) ==
  \E c \in DOMAIN calls :
    /\ calls[c].pc = "pending"
    /\ calls[c].fn \in GameLiftFns
    /\ \E error \in {VendorError(c, k) : k \in Kinds} :
         Ran(c, Effect(<<>>, "none", Undefined, Return(Undefined)),
             [kind |-> "rejected", error |-> error], "catch", error)

\* the .catch handler runs; what it throws is an unhandled rejection
RunCatch ==
  \E c \in DOMAIN calls :
    /\ calls[c].pc = "catch"
    /\ LET effect == CatchHandler(calls[c].fn, calls[c].caught)
       IN Ran(c, effect, calls[c].vendor,
              IF effect.completion.kind = "throw" THEN "threw" ELSE "done", Undefined)

NoCompile == [pc |-> "unused"]

\* one wrapper call at a time per slot, every wrapper, every vendor answer
Init ==
  /\ calls = [c \in 1..MaxCalls |-> NoCall]
  /\ console = <<>>
  /\ cer = NoCompile

Next ==
  \/ Invoke(AllFns)
  \/ VendorCallback(ErrorKinds)
  \/ SendFulfilled
  \/ SendRejected(ErrorKinds)
  \/ RunCatch

Spec == Init /\ [][Next]_vars

\* MaxInFlight calls in flight together, of representative wrappers
InitConcurrent ==
  /\ calls = [c \in 1..MaxInFlight |-> NoCall]
  /\ console = <<>>
  /\ cer = NoCompile

NextConcurrent ==
  \/ Invoke(ConcurrentFns)
  \/ VendorCallback(ConcurrentErrorKinds)
  \/ SendFulfilled
  \/ SendRejected(ConcurrentErrorKinds)
  \/ RunCatch

SpecConcurrent == InitConcurrent /\ [][NextConcurrent]_vars

InitCompile ==
  /\ calls = [c \in 1..MaxCalls |-> NoCall]
  /\ console = <<>>
  /\ cer \in {[pc |-> "call", error |-> e, apiType |-> a] :
                e \in ReportErrors(MaxParams, MaxMsgs), a \in ApiTypes}

\* compileErrorReport(error, apiType) called by a user of the module
CompileErrorReportCall ==
  /\ cer.pc = "call"
  /\ cer' = [pc |-> "done", error |-> cer.error, apiType |-> cer.apiType,
             out |-> compileErrorReport(cer.error, cer.apiType)]
  /\ UNCHANGED <<calls, console>>

NextCompile == CompileErrorReportCall

SpecCompile == InitCompile /\ [][NextCompile]_vars

---------------------------------------------------------------------------
(* Claims about handleApiResponse and the wrappers (checked under Spec) *)

\* the console lines written while the handlers of call c ran, in order
LinesOf(c) ==
  LET own == SelectSeq(console, LAMBDA e : e.call = c)
  IN [i \in 1..Len(own) |-> own[i].line]

\* the handlers of call c have all run
Finished(c) == calls[c].pc \in {"done", "threw"}

\* the value of property key of object o, Undefined when o has no such property
FieldOf(o, key) ==
  IF \E i \in 1..Len(o.entries) : o.entries[i].k = key
  THEN o.entries[(CHOOSE i \in 1..Len(o.entries) : o.entries[i].k = key)].v
  ELSE Undefined

IsTypeError(v) == v.t = "object" /\ v.id = 0 /\ FieldOf(v, "name") = Str("TypeError")

\* C1: whenever handleApiResponse is called with a non-null result, the promise
\* is resolved with exactly that result, reject is never called and the line
\* "<apiName> API call successful" is logged, also when error is non-null too.
C1_ResultWins ==
  \A c \in DOMAIN calls : \A i \in 1..Len(calls[c].seen) :
    LET a == calls[c].seen[i]
    IN a.result # Null =>
         /\ calls[c].promise.state = "fulfilled"
         /\ calls[c].promise.value = a.result
         /\ calls[c].promise.resolveCalls = 1
         /\ calls[c].promise.rejectCalls = 0
         /\ LinesOf(c) = <<a.apiName \o " API call successful">>

\* the tie-break: error and result both non-null, the promise resolves
C1_Witness ==
  \E c \in DOMAIN calls :
    /\ calls[c].pc = "done"
    /\ calls[c].seen # <<>>
    /\ calls[c].seen[1].error = PlainError(c)
    /\ calls[c].seen[1].result = Obj(10 * c + 6, <<Prop("code", Str("200"))>>)
    /\ calls[c].promise.state = "fulfilled"
    /\ calls[c].promise.value = calls[c].seen[1].result
    /\ LinesOf(c) = <<"getTitleData API call successful">>

\* C2: whenever handleApiResponse is called with result null and error
\* non-null, the promise is rejected with that very error object, resolve is
\* never called, and the line logged is "<apiName> API call failed: " followed
\* by compileErrorReport(error, apiType).
C2_ErrorRejects ==
  \A c \in DOMAIN calls : \A i \in 1..Len(calls[c].seen) :
    LET a == calls[c].seen[i]
    IN (a.result = Null /\ a.error # Null) =>
         /\ calls[c].promise.state = "rejected"
         /\ calls[c].promise.value = a.error
         /\ calls[c].promise.resolveCalls = 0
         /\ LinesOf(c) = <<a.apiName \o " API call failed: "
                             \o JSToString(compileErrorReport(a.error, a.apiType).value)>>

\* C3: whenever handleApiResponse is called with result and error both null,
\* the promise is rejected with null, resolve is never called, and the line
\* logged is the "unxpected" line, not the "failed" line.
C3_BothNullRejectsNull ==
  \A c \in DOMAIN calls : \A i \in 1..Len(calls[c].seen) :
    LET a == calls[c].seen[i]
    IN (a.result = Null /\ a.error = Null) =>
         /\ calls[c].promise.state = "rejected"
         /\ calls[c].promise.value = Null
         /\ calls[c].promise.resolveCalls = 0
         /\ calls[c].promise.rejectCalls = 1
         /\ LinesOf(c) = <<a.apiName \o " API call unxpected error: null">>

\* the PlayFab client called back with (null, null)
C3_Witness ==
  \E c \in DOMAIN calls :
    /\ calls[c].pc = "done"
    /\ calls[c].fn = "getEntityToken"
    /\ calls[c].vendor = [kind |-> "callback", error |-> Null, result |-> Null]
    /\ calls[c].promise.state = "rejected"
    /\ calls[c].promise.value = Null
    /\ LinesOf(c) = <<"getEntityToken API call unxpected error: null">>

\* C7: whenever a wrapper's promise is rejected, the rejection value is the
\* error object the vendor call produced, never one made by the wrapper.
C7_RejectsWithVendorError ==
  \A c \in DOMAIN calls :
    calls[c].promise.state = "rejected" =>
      /\ calls[c].vendor.kind \in {"callback", "rejected"}
      /\ calls[c].promise.value = calls[c].vendor.error

\* C8: every completed wrapper call has written exactly one console line.
C8_OneLinePerCall ==
  \A c \in DOMAIN calls : Finished(c) => Len(LinesOf(c)) = 1

\* the vendor call of c succeeded
VendorSucceeded(c) ==
  \/ calls[c].vendor.kind = "fulfilled"
  \/ /\ calls[c].vendor.kind = "callback"
     /\ calls[c].vendor.error = Null
     /\ calls[c].vendor.result # Null

\* what the vendor handed over on success, as received
VendorPayload(c) ==
  IF calls[c].vendor.kind = "fulfilled" THEN calls[c].vendor.response
  ELSE calls[c].vendor.result

\* C9 as written: when the vendor call succeeds the promise resolves with the
\* vendor's payload as received (no field extracted, no element selected).
C9_PassThrough ==
  \A c \in DOMAIN calls :
    (Finished(c) /\ VendorSucceeded(c)) =>
      /\ calls[c].promise.state = "fulfilled"
      /\ calls[c].promise.value = VendorPayload(c)

\* C9 (amended): on vendor success a PlayFab wrapper resolves with the result as
\* received; a GameLift wrapper reads the operation's field of the response
\* (describeGameSession: element 0 of GameSessions) and resolves with that
\* value when it is not null; when it is null createGameSessionQueue, which
\* settles the promise itself, resolves with null and the others reject with
\* null; describeGameSession rejects with the TypeError of the read when the
\* response has no GameSessions list.
C9_FieldOfResponse ==
  \A c \in DOMAIN calls :
    (Finished(c) /\ VendorSucceeded(c)) =>
      IF calls[c].vendor.kind = "callback"
      THEN /\ calls[c].promise.state = "fulfilled"
           /\ calls[c].promise.value = calls[c].vendor.result
      ELSE LET field == FieldOf(calls[c].vendor.response, OutputField(calls[c].fn))
               noList == calls[c].fn = "describeGameSession" /\ field.t # "array"
               read == IF calls[c].fn # "describeGameSession" THEN field
                       ELSE IF field.t = "array" /\ field.items # <<>> THEN field.items[1]
                       ELSE Undefined
               direct == calls[c].fn = "createGameSessionQueue"
           IN /\ noList =>
                   /\ calls[c].promise.state = "rejected"
                   /\ IsTypeError(calls[c].promise.value)
              /\ (~noList /\ (read # Null \/ direct)) =>
                   /\ calls[c].promise.state = "fulfilled"
                   /\ calls[c].promise.value = read
              /\ (~noList /\ read = Null /\ ~direct) =>
                   /\ calls[c].promise.state = "rejected"
                   /\ calls[c].promise.value = Null

\* createPlayerSession resolves with the PlayerSession of the response, not
\* with the response
C9_Witness ==
  \E c \in DOMAIN calls :
    /\ calls[c].pc = "done"
    /\ calls[c].fn = "createPlayerSession"
    /\ calls[c].vendor.kind = "fulfilled"
    /\ calls[c].promise.state = "fulfilled"
    /\ calls[c].promise.value = Payload(c)
    /\ calls[c].promise.value # calls[c].vendor.response

\* C11: once the vendor call of a wrapper invocation has completed and the
\* handlers it triggers have run (no step of the call remains: nothing is
\* enabled for a call that is done or threw), the promise is settled and
\* exactly one of resolve and reject was called, exactly once.
C11_SettledExactlyOnce ==
  \A c \in DOMAIN calls :
    Finished(c) =>
      /\ calls[c].promise.state \in {"fulfilled", "rejected"}
      /\ calls[c].promise.resolveCalls + calls[c].promise.rejectCalls = 1

---------------------------------------------------------------------------
(* Claims about concurrent calls (checked under SpecConcurrent) *)

\* the values found in the response of call c
InsideResponse(c) ==
  LET r == calls[c].vendor.response
      fields == {r.entries[i].v : i \in 1..Len(r.entries)}
  IN {Undefined} \cup fields
       \cup UNION {{f.items[j] : j \in 1..Len(f.items)} : f \in {g \in fields : g.t = "array"}}

\* call c is settled with the outcome of its own vendor call
OwnOutcome(c) ==
  LET p == calls[c].promise
      v == calls[c].vendor
  IN /\ p.resolveCalls + p.rejectCalls <= 1
     /\ p.state \in {"fulfilled", "rejected"} => v.kind # "none"
     /\ p.state = "fulfilled" =>
          \/ v.kind = "callback" /\ p.value = v.result
          \/ v.kind = "fulfilled" /\ p.value \in InsideResponse(c)
     /\ p.state = "rejected" =>
          \/ v.kind \in {"callback", "rejected"} /\ p.value = v.error
          \/ v.kind = "fulfilled" /\ (p.value = Null \/ IsTypeError(p.value))

\* a step changes one call only and leaves every settled promise as it is
StepIsLocal ==
  \A c \in DOMAIN calls :
    /\ calls'[c] # calls[c] => \A d \in DOMAIN calls \ {c} : calls'[d] = calls[d]
    /\ calls[c].promise.state \in {"fulfilled", "rejected"} =>
         calls'[c].promise = calls[c].promise

\* C10: with several calls in flight, under every interleaving of the vendor
\* completions, each promise is settled with the outcome of its own vendor
\* call only, and no settlement changes or is changed by another call's.
C10_Independent == [](\A c \in DOMAIN calls : OwnOutcome(c)) /\ [][StepIsLocal]_vars

\* two calls in flight together, the second completed first, each settled
\* with its own vendor's object
C10_Witness ==
  /\ Len(console) = 2
  /\ console[1].call = 2
  /\ console[2].call = 1
  /\ calls[1].fn = "addUserVirtualCurrency"
  /\ calls[1].promise = [state |-> "rejected", value |-> PlainError(1),
                         resolveCalls |-> 0, rejectCalls |-> 1]
  /\ calls[2].fn = "createGameSession"
  /\ calls[2].promise = [state |-> "fulfilled", value |-> Payload(2),
                         resolveCalls |-> 1, rejectCalls |-> 0]

---------------------------------------------------------------------------
(* Claims about compileErrorReport (checked under SpecCompile) *)

Has(o, key) == o.t = "object" /\ \E i \in 1..Len(o.entries) : o.entries[i].k = key

\* errorDetails maps parameter names to sequences of detail strings
IsDetailMapping(d) ==
  /\ d.t = "object"
  /\ \A i \in 1..Len(d.entries) :
       /\ d.entries[i].v.t = "array"
       /\ \A j \in 1..Len(d.entries[i].v.items) : d.entries[i].v.items[j].t = "string"

\* the text of a message field as a report shows it
Shown(v) == IF v.t = "string" THEN v.s ELSE v.t

\* number of detail lines of the first n parameters
RECURSIVE LinesBefore(_, _)
LinesBefore(d, n) ==
  IF n = 0 THEN 0 ELSE LinesBefore(d, n - 1) + Len(d.entries[n].v.items)

\* the n-th detail line: "<parameter>: <detail>", parameters in iteration order
LineAt(d, n) ==
  LET i == CHOOSE i \in 1..Len(d.entries) :
             LinesBefore(d, i - 1) < n /\ n <= LinesBefore(d, i)
  IN d.entries[i].k \o ": " \o d.entries[i].v.items[n - LinesBefore(d, i - 1)].s

RECURSIVE LinesUpTo(_, _)
\* the first n detail lines, a newline between consecutive lines
LinesUpTo(d, n) ==
  IF n = 0 THEN ""
  ELSE IF n = 1 THEN LineAt(d, 1)
  ELSE LinesUpTo(d, n - 1) \o "\n" \o LineAt(d, n)

\* the message the code is observed to choose: errorMessage when the apiType is
\* PlayFab and errorMessage is a non-empty string, message otherwise
MessageShown(error, apiType) ==
  IF apiType = "PlayFab" /\ Has(error, "errorMessage") /\ Get(error, "errorMessage") # Str("")
  THEN Get(error, "errorMessage")
  ELSE Get(error, "message")

\* the message of the claim as written: errorMessage whenever it is present
MessageIfPresent(error, apiType) ==
  IF apiType = "PlayFab" /\ Has(error, "errorMessage")
  THEN Get(error, "errorMessage")
  ELSE Get(error, "message")

\* the report of (error, apiType) when `message` is the message it shows
ReportShowing(error, apiType, message) ==
  LET d == Get(error, "errorDetails")
  IN IF IsDetailMapping(d)
     THEN Return(Str("[" \o apiType \o " API Error] " \o Shown(message) \o "\n"
                     \o LinesUpTo(d, LinesBefore(d, Len(d.entries)))))
     ELSE Return(message)

\* C4: for an error whose errorDetails maps parameter names to sequences of
\* detail strings, the report is "[<apiType> API Error] <message>", a newline,
\* and one line "<parameter>: <detail>" per detail string, in the mapping's
\* order and each sequence's order, joined by newlines; for an empty mapping it
\* is the header followed by a single newline.
C4_ReportFormat ==
  (cer.pc = "done" /\ cer.error.t = "object"
     /\ IsDetailMapping(Get(cer.error, "errorDetails"))) =>
    LET d == Get(cer.error, "errorDetails")
        header == "[" \o cer.apiType \o " API Error] "
                    \o Shown(MessageShown(cer.error, cer.apiType))
    IN /\ cer.out.kind = "return"
       /\ cer.out.value.t = "string"
       /\ cer.out.value.s = header \o "\n" \o LinesUpTo(d, LinesBefore(d, Len(d.entries)))
       /\ d.entries = <<>> => cer.out.value.s = header \o "\n"

\* the documented example: {"Foo": ["bad"], "Bar": ["wrong", "missing"]} with apiType "X"
C4_Witness ==
  /\ cer.pc = "done"
  /\ cer.apiType = "X"
  /\ cer.error = ErrorObject(1, Str("bad"), Undefined, ExampleDetails)
  /\ cer.out = Return(Str("[X API Error] bad\nFoo: bad\nBar: wrong\nBar: missing"))

\* C5 as written: the report shows errorMessage exactly when apiType is PlayFab
\* and errorMessage is present, and message in every other case.
C5_ErrorMessageWhenPresent ==
  (cer.pc = "done" /\ cer.error.t = "object" /\ cer.out.kind = "return") =>
    cer.out = ReportShowing(cer.error, cer.apiType,
                            MessageIfPresent(cer.error, cer.apiType))

\* C5 (amended): the report shows errorMessage exactly when apiType is PlayFab
\* and errorMessage is present and not the empty string; in every other case
\* (another apiType, errorMessage absent or empty) it shows message.
C5_ErrorMessageWhenNonEmpty ==
  (cer.pc = "done" /\ cer.error.t = "object" /\ cer.out.kind = "return") =>
    cer.out = ReportShowing(cer.error, cer.apiType,
                            MessageShown(cer.error, cer.apiType))

\* PlayFab with message and errorMessage both set: errorMessage is shown
C5_Witness ==
  /\ cer.pc = "done"
  /\ cer.apiType = "PlayFab"
  /\ cer.error = ErrorObject(1, Str("bad"), Str("pf"), Undefined)
  /\ cer.out = Return(Str("pf"))

\* C6: an absent error (null or undefined) gives the empty string for every
\* apiType; a present error whose errorDetails is absent or not a mapping
\* gives the chosen message alone, without header and without newline.
C6_EarlyExits ==
  cer.pc = "done" =>
    /\ cer.error \in {Null, Undefined} => cer.out = Return(Str(""))
    /\ (cer.error.t = "object" /\ Get(cer.error, "errorDetails").t # "object") =>
         cer.out = Return(MessageShown(cer.error, cer.apiType))

\* errorDetails is a string, not a mapping: the message comes back alone
C6_Witness ==
  /\ cer.pc = "done"
  /\ cer.apiType = "GameLift"
  /\ cer.error = ErrorObject(1, Str("bad"), Str("pf"), Str("text"))
  /\ cer.out = Return(Str("bad"))

====
